---- MODULE Spec2Model ----
(***************************************************************************)
(* Model of the adaptive ramp-and-settle controller of src/classes.py:     *)
(* ramp_scan, _per_step and await_in_band, run against a power supply      *)
(* whose readback and slew report are chosen by the environment.           *)
(*                                                                         *)
(* Units.  Time is counted in ticks of 0.1 s, the polling interval that    *)
(* await_in_band uses when _per_step calls it (dwell=0.1).  start, stop    *)
(* and step are integers; setpoints and readbacks are counted in 1/Scale   *)
(* of that unit, so that every point of the evenly spaced sequence is an   *)
(* integer.  One unit of start/stop/step is 1/UnitsPerAmp ampere.  A slew  *)
(* rate and a timeout are exact fractions [n, d].  The clock is the ideal  *)
(* one: a sleep lasts exactly its argument, device I/O takes no time.      *)
(***************************************************************************)
EXTENDS Integers, Sequences, FiniteSets, TLC

VARIABLES pc, caller, args, npts, idx, slew, last, wargs, need, ok, elapsed,
          cur, cmd, err, log, hist, seen, slewRead, prevRd

vars == <<pc, caller, args, npts, idx, slew, last, wargs, need, ok, elapsed,
          cur, cmd, err, log, hist, seen, slewRead, prevRd>>

(* ---------------------------- bounds ---------------------------------- *)
\* start and stop range over 0..MaxCur
MaxCur == 3
\* step ranges over -1..MaxStep
MaxStep == 2
\* a direct call of await_in_band draws dwell from 0..MaxDwell,
\* stable_time from 0..MaxStable and max_time from 0..MaxTime
MaxDwell == 3
MaxStable == 5
MaxTime == 6

(* ---------------------------- arithmetic ------------------------------ *)
Abs(x) == IF x < 0 THEN -x ELSE x

Max(a, b) == IF a >= b THEN a ELSE b

\* Python's int() of the quotient a/b: truncation toward zero (b # 0)
Trunc(a, b) ==
    IF (a >= 0) = (b > 0) THEN Abs(a) \div Abs(b) ELSE -(Abs(a) \div Abs(b))

RECURSIVE Fact(_)
Fact(n) == IF n <= 1 THEN 1 ELSE n * Fact(n - 1)

\* setpoints and readbacks are counted in 1/Scale of the unit of start/stop
Scale == Fact(MaxCur)

(* ---------------------------- program constants ----------------------- *)
TicksPerSec == 10
UnitsPerAmp == 100
DefaultDwell == 1
DefaultStable == 4
DefaultPreWait == 30
DefaultHold == 20
SafetyMargin == 20
DefaultSlew == [n |-> 1, d |-> 10]

(* ---------------------------- input sets ------------------------------ *)
Starts == {0, MaxCur}
Stops == 0 .. MaxCur
Steps == -1 .. MaxStep
\* tolerances, in 1/Scale units: a negative one and one whole unit
TolVals == {-1, Scale}
BaseTimeouts == {0, 5}
\* values the readback signal rdCur can show
ReadVals == {0, Scale, MaxCur * Scale}
\* outcomes of reading rdCurSlewRate: the read raises, or reports n/d A/s
SlewReads == {[fail |-> TRUE, n |-> 0, d |-> 1],
              [fail |-> FALSE, n |-> 0, d |-> 1],
              [fail |-> FALSE, n |-> -1, d |-> 2],
              [fail |-> FALSE, n |-> 1, d |-> 1]}

NoArgs == [start |-> 0, stop |-> 0, step |-> 0, pre_wait_s |-> 0,
           hold_s |-> 0, tol |-> 0, base_timeout |-> 0]
NoWargs == [target |-> 0, tol |-> 0, dwell |-> 0, stable_time |-> 0,
            max_time |-> [n |-> 0, d |-> 1]]
NoSlew == [n |-> 0, d |-> 1]
NoRead == [fail |-> FALSE, n |-> 1, d |-> 1]

(* ---------------------------- pure functions -------------------------- *)
\* ramp_scan: npts = int(abs((stop-start)/step)) + 1
Npts(start, stop, step) == Trunc(Abs(stop - start), Abs(step)) + 1

\* variant of Setpoint: the points are counted from 1 instead of 0
SetpointOffByOne(start, stop, n, i) ==
    IF n = 1 THEN start * Scale
    ELSE start * Scale + ((i + 1) * (stop - start) * Scale) \div (n - 1)

\* scan(..., start, stop, npts): the i-th (0-based) of npts evenly spaced
\* points from start to stop inclusive, in 1/Scale units
Setpoint(start, stop, n, i) ==
    IF n = 1 THEN start * Scale
    ELSE start * Scale + (i * (stop - start) * Scale) \div (n - 1)

\* variant of Need: the quotient is rounded up instead of truncated
NeedCeil(stable_time, dwell) ==
    Max(1, (stable_time + dwell - 1) \div dwell)

\* await_in_band: need = max(1, int(stable_time/dwell))
Need(stable_time, dwell) == Max(1, Trunc(stable_time, dwell))

\* await_in_band: err <= tol
InBand(readback, target, tol) == Abs(readback - target) <= tol

\* variant of NextOk: an out-of-band sample leaves the counter as it is
NextOkNoReset(k, inband) == IF inband THEN k + 1 ELSE k

\* await_in_band: ok = ok+1 if err <= tol else 0
NextOk(k, inband) == IF inband THEN k + 1 ELSE 0

\* variant of TimedOut: >= in place of >
TimedOutGe(t, max_time) == t * max_time.d >= max_time.n

\* variant of TimedOut: the comparison is the wrong way round
TimedOutInverted(t, max_time) == t * max_time.d < max_time.n

\* await_in_band: time.time() - t0 > max_time
TimedOut(t, max_time) == t * max_time.d > max_time.n

\* variant of SlewUsed: a reported zero is used as it is
SlewUsedZeroKept(r) ==
    IF r.fail THEN DefaultSlew
    ELSE IF r.n < 0 THEN DefaultSlew
    ELSE [n |-> r.n, d |-> r.d]

\* _per_step: the slew rate used, from the outcome of the read
SlewUsed(r) ==
    IF r.fail THEN DefaultSlew
    ELSE IF r.n <= 0 THEN DefaultSlew
    ELSE [n |-> r.n, d |-> r.d]

\* variant of DynTimeout: the difference is taken with its sign
DynTimeoutSigned(target, lastrd, sl, base) ==
    [n |-> (base + SafetyMargin) * Scale * UnitsPerAmp * sl.n
            + TicksPerSec * (target - lastrd) * sl.d,
     d |-> Scale * UnitsPerAmp * sl.n]

\* variant of DynTimeout: the 2.0 s margin is left out
DynTimeoutNoMargin(target, lastrd, sl, base) ==
    [n |-> base * Scale * UnitsPerAmp * sl.n
            + TicksPerSec * Abs(target - lastrd) * sl.d,
     d |-> Scale * UnitsPerAmp * sl.n]

\* _per_step: dyn_to = base_timeout + abs(step - last)/slew + 2.0, in ticks
DynTimeout(target, lastrd, sl, base) ==
    [n |-> (base + SafetyMargin) * Scale * UnitsPerAmp * sl.n
            + TicksPerSec * Abs(target - lastrd) * sl.d,
     d |-> Scale * UnitsPerAmp * sl.n]

(* ---------------------------- history --------------------------------- *)
\* log, hist and seen record what the run did.  slewRead (the outcome of the
\* read of rdCurSlewRate) and prevRd (the readback just before the setpoint
\* write) record the inputs of the timeout calculation of the running step;
\* they are kept until the wait begins.
Ev(e, k, v) == [ev |-> e, k |-> k, v |-> v]

\* the in-band flags of the latest n samples of the running wait, oldest first
Sampled(h, inband, n) ==
    IF Len(h) < n THEN Append(h, inband) ELSE Append(Tail(h), inband)

(* ---------------------------- initial states -------------------------- *)
\* a run of ramp_scan(ps, start, stop, step, ...)
Init ==
    /\ pc = "ramp_scan"
    /\ caller = "ramp_scan"
    /\ args \in [start : Starts, stop : Stops, step : Steps,
                 pre_wait_s : {DefaultPreWait}, hold_s : {DefaultHold},
                 tol : TolVals, base_timeout : BaseTimeouts]
    /\ npts = 0
    /\ idx = 0
    /\ slew = NoSlew
    /\ last = 0
    /\ wargs = NoWargs
    /\ need = 0
    /\ ok = 0
    /\ elapsed = 0
    /\ cur \in ReadVals
    /\ cmd = 0
    /\ err = "none"
    /\ log = << >>
    /\ hist = << >>
    /\ seen = {}
    /\ slewRead = NoRead
    /\ prevRd = 0

\* a direct call of await_in_band(ps, target, tol, dwell, stable_time, max_time)
InitWaiter ==
    /\ pc = "await"
    /\ caller = "direct"
    /\ args = NoArgs
    /\ npts = 0
    /\ idx = 0
    /\ slew = NoSlew
    /\ last = 0
    /\ wargs \in [target : {Scale}, tol : TolVals, dwell : 0 .. MaxDwell,
                  stable_time : 0 .. MaxStable,
                  max_time : [n : 0 .. MaxTime, d : {1}]]
    /\ need = 0
    /\ ok = 0
    /\ elapsed = 0
    /\ cur \in ReadVals
    /\ cmd = 0
    /\ err = "none"
    /\ log = << >>
    /\ hist = << >>
    /\ seen = {}
    /\ slewRead = NoRead
    /\ prevRd = 0

(* ---------------------------- ramp_scan ------------------------------- *)
\* line 96: npts; a zero step raises ZeroDivisionError
RampScanNpts ==
    /\ pc = "ramp_scan"
    /\ IF args.step = 0
       THEN /\ pc' = "raised"
            /\ err' = "ZeroDivisionError"
            /\ npts' = npts
       ELSE /\ pc' = "pwr_on"
            /\ err' = err
            /\ npts' = Npts(args.start, args.stop, args.step)
    /\ UNCHANGED <<caller, args, idx, slew, last, wargs, need, ok, elapsed,
                   cur, cmd, log, hist, seen,
                   slewRead, prevRd>>

\* variant of PowerOn: the power-on write is left out
PowerOnSkipped ==
    /\ pc = "pwr_on"
    /\ log' = log
    /\ idx' = 0
    /\ pc' = "pre_wait"
    /\ cur' \in ReadVals
    /\ UNCHANGED <<caller, args, npts, slew, last, wargs, need, ok, elapsed,
                   cmd, err, hist, seen,
                   slewRead, prevRd>>

\* line 97: bps.mv(ps.cmdPwrOn, 1); then scan() starts its first step
PowerOn ==
    /\ pc = "pwr_on"
    /\ log' = Append(log, Ev("pwrOn", -1, 1))
    /\ idx' = 0
    /\ pc' = "pre_wait"
    /\ cur' \in ReadVals
    /\ UNCHANGED <<caller, args, npts, slew, last, wargs, need, ok, elapsed,
                   cmd, err, hist, seen,
                   slewRead, prevRd>>

(* ---------------------------- _per_step ------------------------------- *)
\* variant of PreWait: the setpoint is written first and the sleep follows
PreWaitAfterWrite ==
    /\ pc = "pre_wait"
    /\ cmd' = Setpoint(args.start, args.stop, npts, idx)
    /\ log' = log \o << Ev("mv", idx, cmd'),
                        Ev("pre_wait", idx, args.pre_wait_s) >>
    /\ prevRd' = cur
    /\ cur' \in ReadVals
    /\ pc' = "slew"
    /\ UNCHANGED <<caller, args, npts, idx, slew, last, wargs, need, ok,
                   elapsed, err, hist, seen, slewRead>>

\* line 124: bps.sleep(pre_wait_s)
PreWait ==
    /\ pc = "pre_wait"
    /\ log' = Append(log, Ev("pre_wait", idx, args.pre_wait_s))
    /\ cur' \in ReadVals
    /\ pc' = "mv"
    /\ UNCHANGED <<caller, args, npts, idx, slew, last, wargs, need, ok,
                   elapsed, cmd, err, hist, seen,
                   slewRead, prevRd>>

\* line 125: bps.mv(motor, step), motor = ps.wrCurRamp
MoveSetpoint ==
    /\ pc = "mv"
    /\ cmd' = Setpoint(args.start, args.stop, npts, idx)
    /\ log' = Append(log, Ev("mv", idx, cmd'))
    /\ prevRd' = cur
    /\ cur' \in ReadVals
    /\ pc' = "slew"
    /\ UNCHANGED <<caller, args, npts, idx, slew, last, wargs, need, ok,
                   elapsed, err, hist, seen, slewRead>>

\* variant of PerStepTimeout: the readback used is the one from before the
\* setpoint write
PerStepTimeoutPrev ==
    /\ pc = "slew"
    /\ \E r \in SlewReads :
          /\ slewRead' = r
          /\ slew' = SlewUsed(r)
          /\ last' = prevRd
          /\ wargs' = [target |-> cmd, tol |-> args.tol,
                       dwell |-> DefaultDwell,
                       stable_time |-> DefaultStable,
                       max_time |-> DynTimeout(cmd, prevRd, SlewUsed(r),
                                               args.base_timeout)]
          /\ log' = log \o << Ev("rdSlew", idx, 0),
                              Ev("rdCur", idx, 0) >>
    /\ caller' = "_per_step"
    /\ pc' = "await"
    /\ UNCHANGED <<args, npts, idx, need, ok, elapsed, cur, cmd, err, hist,
                   seen, prevRd>>

\* lines 127-137: read the slew rate (with fallback) and the readback,
\* compute dyn_to and call await_in_band(ps, step, tol=tol, max_time=dyn_to)
PerStepTimeout ==
    /\ pc = "slew"
    /\ \E r \in SlewReads :
          /\ slewRead' = r
          /\ slew' = SlewUsed(r)
          /\ last' = cur
          /\ wargs' = [target |-> cmd, tol |-> args.tol,
                       dwell |-> DefaultDwell,
                       stable_time |-> DefaultStable,
                       max_time |-> DynTimeout(cmd, cur, SlewUsed(r),
                                               args.base_timeout)]
          /\ log' = log \o << Ev("rdSlew", idx, 0),
                              Ev("rdCur", idx, 0) >>
    /\ caller' = "_per_step"
    /\ pc' = "await"
    /\ UNCHANGED <<args, npts, idx, need, ok, elapsed, cur, cmd, err, hist,
                   seen, prevRd>>

\* line 139: bps.sleep(hold_s)
Hold ==
    /\ pc = "hold"
    /\ log' = Append(log, Ev("hold", idx, args.hold_s))
    /\ cur' \in ReadVals
    /\ pc' = "trigger"
    /\ UNCHANGED <<caller, args, npts, idx, slew, last, wargs, need, ok,
                   elapsed, cmd, err, hist, seen,
                   slewRead, prevRd>>

\* variant of Trigger: scan() moves on by two points
TriggerSkipsPoint ==
    /\ pc = "trigger"
    /\ log' = Append(log, Ev("trigger", idx, 0))
    /\ idx' = idx + 2
    /\ pc' = IF idx + 2 < npts THEN "pre_wait" ELSE "done"
    /\ UNCHANGED <<caller, args, npts, slew, last, wargs, need, ok, elapsed,
                   cur, cmd, err, hist, seen,
                   slewRead, prevRd>>

\* variant of Trigger: the measurement is taken twice
TriggerTwice ==
    /\ pc = "trigger"
    /\ log' = log \o << Ev("trigger", idx, 0), Ev("trigger", idx, 0) >>
    /\ idx' = idx + 1
    /\ pc' = IF idx + 1 < npts THEN "pre_wait" ELSE "done"
    /\ UNCHANGED <<caller, args, npts, slew, last, wargs, need, ok, elapsed,
                   cur, cmd, err, hist, seen,
                   slewRead, prevRd>>

\* line 140: bps.trigger_and_read(...); then scan() goes to its next point
Trigger ==
    /\ pc = "trigger"
    /\ log' = Append(log, Ev("trigger", idx, 0))
    /\ idx' = idx + 1
    /\ pc' = IF idx + 1 < npts THEN "pre_wait" ELSE "done"
    /\ UNCHANGED <<caller, args, npts, slew, last, wargs, need, ok, elapsed,
                   cur, cmd, err, hist, seen,
                   slewRead, prevRd>>

(* ---------------------------- await_in_band --------------------------- *)
\* lines 113-114: need, ok = 0, t0 = time.time(); dwell = 0 raises
AwaitEnter ==
    /\ pc = "await"
    /\ IF wargs.dwell = 0
       THEN /\ pc' = "raised"
            /\ err' = "ZeroDivisionError"
            /\ need' = need
       ELSE /\ pc' = "sample"
            /\ err' = err
            /\ need' = Need(wargs.stable_time, wargs.dwell)
    /\ ok' = 0
    /\ elapsed' = 0
    /\ hist' = << >>
    /\ seen' = {}
    /\ slewRead' = NoRead
    /\ prevRd' = 0
    /\ UNCHANGED <<caller, args, npts, idx, slew, last, wargs, cur, cmd, log>>

\* variant of WaiterSample: the timeout is noticed but the wait returns
\* normally instead of raising
WaiterSampleSwallow ==
    /\ pc = "sample"
    /\ ok' = NextOk(ok, InBand(cur, wargs.target, wargs.tol))
    /\ hist' = Sampled(hist, InBand(cur, wargs.target, wargs.tol), need)
    /\ seen' = seen \cup {InBand(cur, wargs.target, wargs.tol)}
    /\ IF ok' >= need
       THEN /\ pc' = IF caller = "_per_step" THEN "hold" ELSE "returned"
            /\ err' = err
            /\ log' = Append(log, Ev("inband", idx, 0))
       ELSE IF TimedOut(elapsed, wargs.max_time)
       THEN /\ pc' = IF caller = "_per_step" THEN "hold" ELSE "returned"
            /\ err' = err
            /\ log' = Append(log, Ev("timeout", idx, 0))
       ELSE /\ pc' = "dwell"
            /\ err' = err
            /\ log' = log
    /\ UNCHANGED <<caller, args, npts, idx, slew, last, wargs, need, elapsed,
                   cur, cmd, slewRead, prevRd>>

\* variant of WaiterSample: the timeout is tested before the counter
WaiterSampleTimeoutFirst ==
    /\ pc = "sample"
    /\ ok' = NextOk(ok, InBand(cur, wargs.target, wargs.tol))
    /\ hist' = Sampled(hist, InBand(cur, wargs.target, wargs.tol), need)
    /\ seen' = seen \cup {InBand(cur, wargs.target, wargs.tol)}
    /\ IF TimedOut(elapsed, wargs.max_time)
       THEN /\ pc' = "raised"
            /\ err' = "TimeoutError"
            /\ log' = Append(log, Ev("timeout", idx, 0))
       ELSE IF ok' >= need
       THEN /\ pc' = IF caller = "_per_step" THEN "hold" ELSE "returned"
            /\ err' = err
            /\ log' = Append(log, Ev("inband", idx, 0))
       ELSE /\ pc' = "dwell"
            /\ err' = err
            /\ log' = log
    /\ UNCHANGED <<caller, args, npts, idx, slew, last, wargs, need, elapsed,
                   cur, cmd, slewRead, prevRd>>

\* variant of WaiterSample: on a timeout the supply is switched off before
\* the error is raised
WaiterSamplePowerDown ==
    /\ pc = "sample"
    /\ ok' = NextOk(ok, InBand(cur, wargs.target, wargs.tol))
    /\ hist' = Sampled(hist, InBand(cur, wargs.target, wargs.tol), need)
    /\ seen' = seen \cup {InBand(cur, wargs.target, wargs.tol)}
    /\ IF ok' >= need
       THEN /\ pc' = IF caller = "_per_step" THEN "hold" ELSE "returned"
            /\ err' = err
            /\ log' = Append(log, Ev("inband", idx, 0))
       ELSE IF TimedOut(elapsed, wargs.max_time)
       THEN /\ pc' = "raised"
            /\ err' = "TimeoutError"
            /\ log' = log \o << Ev("pwrOff", idx, 1), Ev("timeout", idx, 0) >>
       ELSE /\ pc' = "dwell"
            /\ err' = err
            /\ log' = log
    /\ UNCHANGED <<caller, args, npts, idx, slew, last, wargs, need, elapsed,
                   cur, cmd, slewRead, prevRd>>

\* lines 116-120: one sample: count it, then return, raise or go to sleep
WaiterSample ==
    /\ pc = "sample"
    /\ ok' = NextOk(ok, InBand(cur, wargs.target, wargs.tol))
    /\ hist' = Sampled(hist, InBand(cur, wargs.target, wargs.tol), need)
    /\ seen' = seen \cup {InBand(cur, wargs.target, wargs.tol)}
    /\ IF ok' >= need
       THEN /\ pc' = IF caller = "_per_step" THEN "hold" ELSE "returned"
            /\ err' = err
            /\ log' = Append(log, Ev("inband", idx, 0))
       ELSE IF TimedOut(elapsed, wargs.max_time)
       THEN /\ pc' = "raised"
            /\ err' = "TimeoutError"
            /\ log' = Append(log, Ev("timeout", idx, 0))
       ELSE /\ pc' = "dwell"
            /\ err' = err
            /\ log' = log
    /\ UNCHANGED <<caller, args, npts, idx, slew, last, wargs, need, elapsed,
                   cur, cmd, slewRead, prevRd>>

\* variant of WaiterSleep: the sleep returns at once, no time passes
WaiterSleepNoClock ==
    /\ pc = "dwell"
    /\ elapsed' = elapsed
    /\ cur' \in ReadVals
    /\ pc' = "sample"
    /\ UNCHANGED <<caller, args, npts, idx, slew, last, wargs, need, ok, cmd,
                   err, log, hist, seen,
                   slewRead, prevRd>>

\* line 121: bps.sleep(dwell)
WaiterSleep ==
    /\ pc = "dwell"
    /\ elapsed' = elapsed + wargs.dwell
    /\ cur' \in ReadVals
    /\ pc' = "sample"
    /\ UNCHANGED <<caller, args, npts, idx, slew, last, wargs, need, ok, cmd,
                   err, log, hist, seen,
                   slewRead, prevRd>>

(* ---------------------------- specifications -------------------------- *)
Next ==
    \/ RampScanNpts
    \/ PowerOn
    \/ PreWait
    \/ MoveSetpoint
    \/ PerStepTimeout
    \/ AwaitEnter
    \/ WaiterSample
    \/ WaiterSleep
    \/ Hold
    \/ Trigger

Spec == Init /\ [][Next]_vars

NextWaiter ==
    \/ AwaitEnter
    \/ WaiterSample
    \/ WaiterSleep

SpecWaiter == InitWaiter /\ [][NextWaiter]_vars

\* a direct call of await_in_band, or a ramp_scan run from start = 0 with
\* base_timeout = 0, under a run engine that keeps resuming the plan as long
\* as it has a next step
InitAny ==
    \/ InitWaiter
    \/ Init /\ args.start = 0 /\ args.base_timeout = 0

SpecFair == InitAny /\ [][Next]_vars /\ WF_vars(Next)

TypeOK ==
    /\ pc \in {"ramp_scan", "pwr_on", "pre_wait", "mv", "slew", "await",
               "sample", "dwell", "hold", "trigger", "done", "returned",
               "raised"}
    /\ err \in {"none", "ZeroDivisionError", "TimeoutError"}
    /\ ok \in Nat
    /\ elapsed \in Nat

(* ---------------------------- reading the history --------------------- *)
\* positions of the log that hold an event e
At(e) == {i \in DOMAIN log : log[i].ev = e}

\* positions of the log that hold an event e of step k
AtStep(e, k) == {i \in DOMAIN log : log[i].ev = e /\ log[i].k = k}

(* ---------------------------- C1 -------------------------------------- *)
\* C1: when await_in_band raises its timeout in the step of setpoint k, the
\* run has no hold sleep and no measurement trigger of step k, no event at
\* all after the timeout, no setpoint write of a later step, and it stays
\* stopped with the TimeoutError.
C1_FailFast ==
    \A i \in At("timeout") :
        /\ AtStep("hold", log[i].k) = {}
        /\ AtStep("trigger", log[i].k) = {}
        /\ i = Len(log)
        /\ \A j \in At("mv") : log[j].k <= log[i].k
        /\ pc = "raised"
        /\ err = "TimeoutError"

\* a wait timed out at a setpoint that is not the last of the sequence
C1_Witness ==
    /\ pc = "raised"
    /\ err = "TimeoutError"
    /\ At("timeout") # {}
    /\ idx + 1 < npts

(* ---------------------------- C2 -------------------------------------- *)
\* C2: a scan that ends without error has recorded exactly one trigger per
\* setpoint, and in every run each trigger of step k comes after the wait
\* of step k has returned in band and that wait did not time out.
C2_OneTriggerPerSetpoint ==
    /\ pc = "done" =>
          \A k \in 0 .. npts - 1 : Cardinality(AtStep("trigger", k)) = 1
    /\ \A i \in At("trigger") :
          /\ \E j \in AtStep("inband", log[i].k) : j < i
          /\ AtStep("timeout", log[i].k) = {}
          /\ log[i].k \in 0 .. npts - 1

\* a scan of at least two setpoints has completed
C2_Witness ==
    /\ pc = "done"
    /\ npts >= 2
    /\ Cardinality(At("trigger")) = npts

(* ---------------------------- C3 -------------------------------------- *)
\* C3: there is never more than one power-on write; a scan that wrote any
\* setpoint or ran to its end wrote the power-on exactly once, as the first
\* device write, before every setpoint write.
C3_PowerOnOnce ==
    /\ Cardinality(At("pwrOn")) <= 1
    /\ (pc = "done" \/ At("mv") # {}) =>
          /\ At("pwrOn") = {1}
          /\ \A j \in At("mv") : j > 1

\* the second setpoint of a scan has been written
C3_Witness ==
    /\ AtStep("mv", 1) # {}
    /\ At("pwrOn") # {}

(* ---------------------------- reading a wait -------------------------- *)
\* await_in_band has computed need and has not returned or raised
Waiting == pc \in {"sample", "dwell"}

\* await_in_band has raised its timeout
TimeoutRaised == pc = "raised" /\ err = "TimeoutError"

\* await_in_band, called directly, has returned
Succeeded == pc = "returned"

\* await_in_band has got past the computation of need
Entered == Waiting \/ Succeeded \/ TimeoutRaised

\* the number of in-band flags at the end of h
RECURSIVE TrailingInBand(_)
TrailingInBand(h) ==
    IF h = << >> THEN 0
    ELSE IF h[Len(h)] THEN 1 + TrailingInBand(SubSeq(h, 1, Len(h) - 1))
    ELSE 0

\* max(1, ceil(stable_time / dwell)) of the running wait
CeilNeed == Max(1, (wargs.stable_time + wargs.dwell - 1) \div wargs.dwell)

\* max(1, floor(stable_time / dwell)) of the running wait
FloorNeed == Max(1, wargs.stable_time \div wargs.dwell)

C5_ResetOnOutOfBand ==
    Entered =>
        /\ ok = TrailingInBand(hist)
        /\ (hist # << >> /\ ~hist[Len(hist)]) => ok = 0
        /\ Succeeded =>
              /\ Len(hist) = need
              /\ \A i \in DOMAIN hist : hist[i]
        /\ (need > 1 /\ Len(hist) >= 2 /\ ~hist[Len(hist) - 1]) => ~Succeeded

\* with need > 1, an out-of-band sample came after need-1 in-band samples in
\* a row, and the wait goes on with its counter at zero
C5_Witness ==
    /\ pc = "dwell"
    /\ need > 1
    /\ Len(hist) = need
    /\ ~hist[need]
    /\ \A i \in 1 .. need - 1 : hist[i]
    /\ ok = 0

C7_AllOutOfBand ==
    (Entered /\ seen \subseteq {FALSE}) =>
        /\ ~Succeeded
        /\ pc = "dwell" => elapsed * wargs.max_time.d <= wargs.max_time.n
        /\ TimeoutRaised =>
              /\ elapsed * wargs.max_time.d >= wargs.max_time.n
              /\ elapsed * wargs.max_time.d
                    <= wargs.max_time.n + wargs.dwell * wargs.max_time.d

\* a wait that saw out-of-band samples only timed out after sleeping, with a
\* dwell that does not divide max_time
C7_Witness ==
    /\ TimeoutRaised
    /\ seen = {FALSE}
    /\ elapsed > wargs.dwell
    /\ wargs.max_time.n % (wargs.dwell * wargs.max_time.d) # 0

(* ---------------------------- C8 -------------------------------------- *)
Sgn(x) == IF x > 0 THEN 1 ELSE IF x < 0 THEN -1 ELSE 0

\* C8 as stated (step taken by its magnitude, its sign being that of
\* stop - start): the sequence has floor(|stop-start| / step) + 1 setpoints
\* and each setpoint written differs from the one before by exactly step.
C8_StepSpacing ==
    (pc # "ramp_scan" /\ err # "ZeroDivisionError") =>
        /\ npts = Abs(args.stop - args.start) \div Abs(args.step) + 1
        /\ pc = "done" => Cardinality(At("mv")) = npts
        /\ \A i, j \in At("mv") :
              log[j].k = log[i].k + 1 =>
                  log[j].v - log[i].v
                     = Sgn(args.stop - args.start) * Abs(args.step) * Scale

(* ---------------------------- C9 -------------------------------------- *)
\* C9: every setpoint written lies between start and stop inclusive, and
\* the setpoints written go strictly in the direction of stop - start.
C9_WithinRange ==
    /\ \A i \in At("mv") :
          \/ args.start * Scale <= log[i].v /\ log[i].v <= args.stop * Scale
          \/ args.stop * Scale <= log[i].v /\ log[i].v <= args.start * Scale
    /\ \A i, j \in At("mv") :
          i < j =>
              /\ log[i].k < log[j].k
              /\ Sgn(log[j].v - log[i].v) = Sgn(args.stop - args.start)

\* the last setpoint of a sequence whose step does not divide stop - start
\* has been written
C9_Witness ==
    /\ args.step # 0
    /\ Abs(args.stop - args.start) % Abs(args.step) # 0
    /\ npts >= 2
    /\ AtStep("mv", npts - 1) # {}

(* ---------------------------- C10 ------------------------------------- *)
\* C10 as stated: a run started with step = 0 or with a non-positive
\* tolerance does no device I/O: no power-on write, no setpoint write, no
\* read of the slew rate or the readback.
C10_RejectBeforeIO ==
    (caller # "direct" /\ (args.step = 0 \/ args.tol <= 0)) =>
        /\ At("pwrOn") = {}
        /\ At("mv") = {}
        /\ At("rdSlew") = {}
        /\ At("rdCur") = {}
        /\ seen = {}
    /\ slewRead = NoRead
    /\ prevRd = 0

(* ---------------------------- reading a step -------------------------- *)
\* _per_step has computed dyn_to and is about to enter await_in_band
StepCalc == pc = "await" /\ caller = "_per_step"

\* _per_step is at or past the computation of dyn_to
InStep == caller = "_per_step"

(* ---------------------------- C11 ------------------------------------- *)
\* C11: when the read of the slew rate raises or returns a value <= 0, the
\* slew rate used is 0.1, the step goes on into the wait without an error,
\* and the timeout is base_timeout + |target - readback| / 0.1 + 2.0; the
\* slew rate used as divisor is always > 0; target = 1, readback = 0,
\* slew = 0, base = 5 give 17 seconds.
C11_SlewFallback ==
    /\ (StepCalc /\ (slewRead.fail \/ slewRead.n <= 0)) =>
          /\ slew.n * 10 = slew.d
          /\ err = "none"
          /\ wargs.max_time.n * Scale * UnitsPerAmp
                = wargs.max_time.d
                    * ((args.base_timeout + 2 * TicksPerSec) * Scale * UnitsPerAmp
                       + 10 * TicksPerSec * Abs(wargs.target - last))
    /\ InStep => slew.n > 0 /\ slew.d > 0 /\ wargs.max_time.d > 0
    /\ LET t == DynTimeout(UnitsPerAmp * Scale, 0,
                           SlewUsed([fail |-> FALSE, n |-> 0, d |-> 1]),
                           5 * TicksPerSec)
       IN t.n = 17 * TicksPerSec * t.d

\* the slew read returned zero in a step whose readback is off the target,
\* and the step is about to wait
C11_Witness ==
    /\ StepCalc
    /\ ~slewRead.fail
    /\ slewRead.n = 0
    /\ last # wargs.target

(* ---------------------------- C12 ------------------------------------- *)
\* C12: when the slew read returns a positive rate, the max_time handed to
\* the wait is base_timeout + |target - readback| / slew + 2.0, with the
\* readback that _per_step read; target = 5, readback = 2, slew = 1,
\* base = 5 give 10 seconds.
C12_DynamicTimeout ==
    /\ (StepCalc /\ ~slewRead.fail /\ slewRead.n > 0) =>
          /\ slew = [n |-> slewRead.n, d |-> slewRead.d]
          /\ wargs.max_time.n * slewRead.n * Scale * UnitsPerAmp
                = wargs.max_time.d
                    * ((args.base_timeout + 2 * TicksPerSec)
                          * slewRead.n * Scale * UnitsPerAmp
                       + TicksPerSec * Abs(wargs.target - last) * slewRead.d)
    /\ LET t == DynTimeout(5 * UnitsPerAmp * Scale, 2 * UnitsPerAmp * Scale,
                           SlewUsed([fail |-> FALSE, n |-> 1, d |-> 1]),
                           5 * TicksPerSec)
       IN t.n = 10 * TicksPerSec * t.d

\* a step with a positive slew report, a readback off the target and a
\* base_timeout above zero is about to wait
C12_Witness ==
    /\ StepCalc
    /\ ~slewRead.fail
    /\ slewRead.n > 0
    /\ last # wargs.target
    /\ args.base_timeout > 0

(* ---------------------------- C13 ------------------------------------- *)
\* C13: the n-th setpoint write is that of step n-1 and carries the n-th
\* point of the evenly spaced sequence; the write of step k+1 comes after the
\* measurement of step k, and between two setpoint writes there is always a
\* measurement.
C13_StrictOrder ==
    /\ \A i \in At("mv") :
          /\ Cardinality({j \in At("mv") : j <= i}) = log[i].k + 1
          /\ IF npts = 1 THEN log[i].v = args.start * Scale
             ELSE log[i].v * (npts - 1)
                    = args.start * Scale * (npts - 1)
                      + log[i].k * (args.stop - args.start) * Scale
          /\ log[i].k > 0 =>
                \E j \in AtStep("trigger", log[i].k - 1) : j < i
    /\ \A i, j \in At("mv") :
          i < j => \E t \in At("trigger") : i < t /\ t < j

\* the third setpoint of a scan has been written
C13_Witness ==
    /\ AtStep("mv", 2) # {}
    /\ Cardinality(At("trigger")) = 2

(* ---------------------------- C14 ------------------------------------- *)
\* C14 as stated: the readback that enters the timeout of a step is the
\* readback as it was before the setpoint write of that step.
C14_ReadbackBeforeCommand ==
    StepCalc => last = prevRd

\* C14 as amended: the readback that enters the timeout of a step is read
\* after the setpoint write of that step (the write, the slew read and the
\* readback read come in this order), it is the readback of that moment, and
\* the travel term of the timeout is the distance from it to the target.
C14_ReadbackAfterCommand ==
    StepCalc =>
        /\ last = cur
        /\ Len(log) >= 3
        /\ log[Len(log)] = Ev("rdCur", idx, 0)
        /\ log[Len(log) - 1] = Ev("rdSlew", idx, 0)
        /\ log[Len(log) - 2] = Ev("mv", idx, wargs.target)
        /\ wargs.max_time.n * Scale * UnitsPerAmp * slew.n
              = wargs.max_time.d
                  * ((args.base_timeout + 2 * TicksPerSec)
                        * Scale * UnitsPerAmp * slew.n
                     + TicksPerSec * Abs(wargs.target - cur) * slew.d)

\* the readback changed while the setpoint was being written, and the step
\* is about to wait
C14_Witness ==
    /\ StepCalc
    /\ last # prevRd
    /\ Abs(wargs.target - last) # Abs(wargs.target - prevRd)

(* ---------------------------- C15 ------------------------------------- *)
\* the events of step k, in the order in which they happened
StepEvents(k) ==
    LET OfStep(e) == e.k = k
        evs == SelectSeq(log, OfStep)
    IN [i \in 1 .. Len(evs) |-> evs[i].ev]

IsPrefix(a, b) == Len(a) <= Len(b) /\ a = SubSeq(b, 1, Len(a))

\* C15: the events of every step are a beginning of: pre_wait sleep,
\* setpoint write, slew read, readback read, return of the wait, hold
\* sleep, trigger (or, from the wait on, its timeout and nothing more); the
\* polling of the wait lies between the readback read and its outcome; the
\* sleeps are those of pre_wait_s and hold_s.
C15_PhaseOrder ==
    /\ \A k \in 0 .. idx :
          \/ IsPrefix(StepEvents(k),
                      << "pre_wait", "mv", "rdSlew", "rdCur", "inband",
                         "hold", "trigger" >>)
          \/ StepEvents(k)
               = << "pre_wait", "mv", "rdSlew", "rdCur", "timeout" >>
    /\ (InStep /\ Waiting) =>
          /\ log[Len(log)] = Ev("rdCur", idx, 0)
          /\ Len(StepEvents(idx)) = 4
    /\ \A i \in At("pre_wait") : log[i].v = args.pre_wait_s
    /\ \A i \in At("hold") : log[i].v = args.hold_s

\* the second step of a scan has gone through all its phases
C15_Witness ==
    /\ idx >= 2
    /\ StepEvents(1) = << "pre_wait", "mv", "rdSlew", "rdCur", "inband",
                          "hold", "trigger" >>

(* ---------------------------- C16 ------------------------------------- *)
\* C16: a wait that returned did so on a sample that brought the run of
\* in-band samples to need, whatever the elapsed time; a wait that raised
\* its timeout did so on a sample that left the run below need, with the
\* elapsed time strictly above max_time; a wait that went to sleep had the
\* run below need and the elapsed time not above max_time; the elapsed time
\* is a whole number of dwells.
C16_SuccessBeforeTimeout ==
    Entered =>
        /\ Succeeded => TrailingInBand(hist) >= need
        /\ TimeoutRaised =>
              /\ TrailingInBand(hist) < need
              /\ elapsed * wargs.max_time.d > wargs.max_time.n
        /\ pc = "dwell" =>
              /\ TrailingInBand(hist) < need
              /\ elapsed * wargs.max_time.d <= wargs.max_time.n
        /\ elapsed % wargs.dwell = 0

\* a wait returned on a sample taken after max_time had been exceeded
C16_Witness ==
    /\ Succeeded
    /\ elapsed * wargs.max_time.d > wargs.max_time.n
    /\ need >= 2

(* ---------------------------- C17 ------------------------------------- *)
\* the events that are not writes to the device
NonWrites == {"pre_wait", "rdSlew", "rdCur", "inband", "timeout", "hold",
              "trigger"}

\* the writes to the device, in the order in which they happened
WritesOf(l) ==
    LET IsWrite(e) == e.ev \notin NonWrites
    IN SelectSeq(l, IsWrite)

\* C17, in every state: the writes of a run are one power-on followed by one
\* ramped setpoint write per step begun, the commanded value is that of the
\* latest setpoint write, and after a timeout it is the setpoint of the
\* failing step, with no write after that one.
C17_WritesInv ==
    LET w == WritesOf(log) IN
    /\ \A i \in DOMAIN w :
          IF i = 1 THEN w[i] = Ev("pwrOn", -1, 1)
          ELSE w[i].ev = "mv" /\ w[i].k = i - 2
    /\ Len(w) >= 2 => cmd = w[Len(w)].v
    /\ pc \in {"slew", "await", "sample", "dwell", "hold", "trigger"} =>
          (caller = "direct" \/ Len(w) = idx + 2)
    /\ pc \in {"pre_wait", "mv", "done"} => Len(w) = idx + 1
    /\ (TimeoutRaised /\ InStep) =>
          /\ Len(w) = idx + 2
          /\ w[Len(w)] = Ev("mv", idx, cmd)
          /\ cmd = wargs.target
          /\ log[Len(log)].ev = "timeout"

\* C17, in every step: from the timeout calculation to the end of the wait
\* nothing is written and the commanded value stays as it is.
C17_WritesStep ==
    pc \in {"slew", "await", "sample", "dwell"} =>
        /\ cmd' = cmd
        /\ WritesOf(log') = WritesOf(log)

\* C17: the only writes are the power-on and one ramped setpoint write per
\* step; the wait and the timeout calculation write nothing; a timeout
\* leaves the commanded value at the failing setpoint.
C17_WritesOnly == []C17_WritesInv /\ [][C17_WritesStep]_vars

\* a wait timed out at the second setpoint or later, away from zero
C17_Witness ==
    /\ TimeoutRaised
    /\ idx >= 1
    /\ cmd # 0
    /\ Len(WritesOf(log)) = idx + 2

(* ---------------------------- C18 ------------------------------------- *)
\* the plan has ended: it returned or it raised
Ended == pc \in {"done", "returned", "raised"}

\* C18, in every state: a wait does not go to sleep once the elapsed time
\* exceeds max_time, so it never polls later than max_time + dwell after its
\* start.
C18_WaitBounded ==
    /\ pc = "dwell" => elapsed * wargs.max_time.d <= wargs.max_time.n
    /\ pc = "sample" =>
          elapsed * wargs.max_time.d
             <= wargs.max_time.n + wargs.dwell * wargs.max_time.d

\* C18: every call of await_in_band ends, by return or by raising, within
\* max_time + dwell of its start, whatever the readbacks; every ramp_scan
\* run ends.
C18_Terminates == []C18_WaitBounded /\ <>Ended

\* a wait that saw readbacks in and out of band ended by its timeout, more
\* than one dwell after its start
C18_Witness ==
    /\ TimeoutRaised
    /\ seen = {TRUE, FALSE}
    /\ elapsed > wargs.dwell

(* ---------------------------- C19 ------------------------------------- *)
\* C19: in every step, whatever the slew report and the readback, the
\* max_time handed to the wait is at least base_timeout + 2.0, and a wait
\* of a step that raised its timeout had run for at least that long.
C19_TimeoutFloor ==
    InStep =>
        /\ wargs.max_time.d > 0
        /\ wargs.max_time.n
              >= (args.base_timeout + 2 * TicksPerSec) * wargs.max_time.d
        /\ TimeoutRaised => elapsed >= args.base_timeout + 2 * TicksPerSec

\* the wait of a step whose readback was already at the target, with a
\* failed or non-positive slew report and a base_timeout above zero, timed
\* out
C19_Witness ==
    /\ InStep
    /\ TimeoutRaised
    /\ last = wargs.target
    /\ slew = DefaultSlew
    /\ args.base_timeout > 0

====
